---- MODULE Spec2Model ----
(***************************************************************************)
(* ww (src/src/ww/ww.go): watch the whois record of a zone and mail a      *)
(* report of the differences from an expected snapshot.                    *)
(*                                                                         *)
(* Strings and byte slices are sequences of chunks.  A chunk is a TLA+     *)
(* string: one character for text that the program scans (whois text,      *)
(* field names, field values, addresses), a whole literal for the pieces   *)
(* of a format string, which the program only concatenates.                *)
(***************************************************************************)
EXTENDS Integers, Sequences, FiniteSets, TLC

VARIABLES
    pc,         \* position in main, or in the function under study
    expect, to, from, zone, whois, smtpServer,   \* the flags (ww.go:100-111)
    stdout,     \* what fmt.Printf / log.Printf reported, in order
    io,         \* the I/O steps performed, in order, with their outcome
    fields,     \* split(expected)                       (ww.go:151)
    got,        \* split(response)                       (ww.go:168)
    todo,       \* keys the running range loop has not visited yet
    msg,        \* *msg, the report accumulated by report() (ww.go:170)
    sent,       \* the calls of smtp.SendMail            (ww.go:71)
    b,          \* the argument of split / the line matched against fieldRe
    m,          \* the result of fieldRe.FindSubmatch    (ww.go:86)
    first       \* report of the first comparison, when two are run in turn

vars == <<pc, expect, to, from, zone, whois, smtpServer, stdout, io, fields,
          got, todo, msg, sent, b, m, first>>

flags == <<expect, to, from, zone, whois, smtpServer>>

(***************************************************************************)
(* Bounds of the model.                                                    *)
(***************************************************************************)
MaxLineLen == 6     \* longest line matched against fieldRe on its own
MaxTextLen == 8     \* longest text given to split on its own
MaxLines   == 3     \* most lines of a snapshot file or a whois response
MaxEntries == 4     \* most (name, value) pairs of a record compared on its own

(***************************************************************************)
(* Characters.                                                             *)
(***************************************************************************)
Upper == {"A", "B", "C", "D", "E", "F", "G", "H", "I", "J", "K", "L", "M",
          "N", "O", "P", "Q", "R", "S", "T", "U", "V", "W", "X", "Y", "Z"}

Lower == {"a", "b", "c", "d", "e", "f", "g", "h", "i", "j", "k", "l", "m",
          "n", "o", "p", "q", "r", "s", "t", "u", "v", "w", "x", "y", "z"}

Letter == Upper \cup Lower

\* unicode.IsSpace on the characters a whois text holds
Space == {" ", "\t", "\n", "\r", "\f"}

Nil == <<>>

SeqsUpTo(S, n) == UNION {[1..i -> S] : i \in 0..n}

(***************************************************************************)
(* bytes.Split / strings.Split with a one-character separator: the pieces  *)
(* between the separators, one more than there are separators.             *)
(***************************************************************************)
RECURSIVE Split(_, _)
Split(s, sep) ==
    IF \A i \in 1..Len(s) : s[i] # sep
    THEN <<s>>
    ELSE LET i == CHOOSE j \in 1..Len(s) :
                     s[j] = sep /\ \A h \in 1..(j-1) : s[h] # sep
         IN  <<SubSeq(s, 1, i-1)>> \o Split(SubSeq(s, i+1, Len(s)), sep)

RECURSIVE TrimLeft(_)
TrimLeft(s) ==
    IF s # <<>> /\ Head(s) \in Space THEN TrimLeft(Tail(s)) ELSE s

RECURSIVE TrimRight(_)
TrimRight(s) ==
    IF s # <<>> /\ s[Len(s)] \in Space
    THEN TrimRight(SubSeq(s, 1, Len(s)-1)) ELSE s

\* bytes.TrimSpace
TrimSpace(s) == TrimRight(TrimLeft(s))

\* fieldRe (ww.go:36), whose label group is  (?:[A-Z][A-Za-z]+ ?)+  run as an
\* automaton.  States: "w0" before the [A-Z] of the first word, "w1" after a
\* word's [A-Z], "w2" inside [A-Za-z]+, "sp" after the optional space.  In
\* "w2" and "sp" one round of the group is complete.
LabelStepLoose(S, c) ==
    {t \in {"w1", "w2", "sp"} :
        \/ t = "w1" /\ c \in Upper /\ S \cap {"w0", "w1", "w2", "sp"} # {}
        \/ t = "w2" /\ c \in Lower /\ S \cap {"w1", "w2"} # {}
        \/ t = "sp" /\ c = " "     /\ S \cap {"w1", "w2"} # {}}

LabelStep(S, c) ==
    {t \in {"w1", "w2", "sp"} :
        \/ t = "w1" /\ c \in Upper  /\ S \cap {"w0", "w2", "sp"} # {}
        \/ t = "w2" /\ c \in Letter /\ S \cap {"w1", "w2"} # {}
        \/ t = "sp" /\ c = " "      /\ "w2" \in S}

\* The index of the ':' that ends the label, 0 when the line has no label.
RECURSIVE LabelEnd(_, _, _)
LabelEnd(l, i, S) ==
    IF S = {} \/ i > Len(l) THEN 0
    ELSE IF l[i] = ":" THEN (IF S \cap {"w2", "sp"} # {} THEN i ELSE 0)
    ELSE LabelEnd(l, i+1, LabelStep(S, l[i]))

\* fieldRe.FindSubmatch: nil, or the whole match and the two groups.
FindSubmatch(l) ==
    LET p == LabelEnd(l, 1, {"w0"})
    IN  IF p = 0 \/ \E i \in (p+1)..Len(l) : l[i] = "\n"
        THEN Nil
        ELSE <<l, SubSeq(l, 1, p-1), SubSeq(l, p+1, Len(l))>>

(***************************************************************************)
(* A record is a map[string]map[string]bool: a function from field names   *)
(* to sets of values.                                                      *)
(***************************************************************************)
EmptyRecord == [k \in {} |-> {}]

\* the body of the loop of split (ww.go:86-94) on the line l
SplitBodyOverwrite(f, l) ==
    LET sm == FindSubmatch(l)
    IN  IF sm # Nil
        THEN LET k == sm[2]
                 v == TrimSpace(sm[3])
             IN  [x \in DOMAIN f \cup {k} |-> IF x = k THEN {v} ELSE f[x]]
        ELSE f

SplitBody(f, l) ==
    LET sm == FindSubmatch(l)
    IN  IF sm # Nil
        THEN LET k  == sm[2]
                 f1 == IF k \in DOMAIN f
                       THEN f
                       ELSE [x \in DOMAIN f \cup {k} |->
                                IF x = k THEN {} ELSE f[x]]
                 v  == TrimSpace(sm[3])
             IN  [f1 EXCEPT ![k] = @ \cup {v}]
        ELSE f

RECURSIVE SplitLoop(_, _, _)
SplitLoop(lines, i, f) ==
    IF i > Len(lines) THEN f
    ELSE SplitLoop(lines, i+1, SplitBody(f, lines[i]))

\* split (ww.go:81-98)
split(bs) == SplitLoop(Split(bs, "\n"), 1, EmptyRecord)

(***************************************************************************)
(* Formatting.  fmt.Sprintf only concatenates here (%s and %d verbs), so a *)
(* formatted text is the sequence of the format's pieces and the values.   *)
(***************************************************************************)
\* the orders in which a range loop may visit the set S
Perms(S) ==
    {o \in [1..Cardinality(S) -> S] : \A x \in S : \E i \in DOMAIN o : o[i] = x}

\* keys (ww.go:40-46) when the range loop visits the map in the order o
RECURSIVE keys(_)
keys(o) ==
    IF o = <<>> THEN <<>> ELSE Head(o) \o <<" ">> \o keys(Tail(o))

\* report (ww.go:50-54): the text 'add', which the caller appends to *msg
\* and which log.Printf writes out.  (log.Printf takes add as a format; the
\* texts of this model hold no '%'.)
report(text) == text \o <<"\n">>

\* strings.Join
RECURSIVE Join(_, _)
Join(ss, sep) ==
    IF ss = <<>> THEN <<>>
    ELSE IF Len(ss) = 1 THEN ss[1]
    ELSE ss[1] \o sep \o Join(Tail(ss), sep)

\* the reports of ww.go:181-187 for the values vs of fields[k], in order
RECURSIVE MissingValues(_, _)
MissingValues(k, vs) ==
    IF vs = <<>> THEN <<>>
    ELSE (IF Head(vs) \notin got[k]
          THEN report(<<"Field ">> \o k \o <<" expected value [">>
                      \o Head(vs) \o <<"] missing">>)
          ELSE <<>>)
         \o MissingValues(k, Tail(vs))

\* the reports of ww.go:189-194 for the values vs of got[k], in order
RECURSIVE ExtraValues(_, _)
ExtraValues(k, vs) ==
    IF vs = <<>> THEN <<>>
    ELSE (IF Head(vs) \notin fields[k]
          THEN report(<<"Field ">> \o k \o <<" extra value [">>
                      \o Head(vs) \o <<"]">>)
          ELSE <<>>)
         \o ExtraValues(k, Tail(vs))

(***************************************************************************)
(* The comparison (ww.go:170-202).  Go visits a map in an order of its     *)
(* choosing: each loop picks its next key, and each inner loop its order   *)
(* of values, freely.                                                      *)
(***************************************************************************)
Emit(added) ==
    /\ msg' = msg \o added
    /\ stdout' = stdout \o added

NumValues(f) ==
    Cardinality({kv \in (DOMAIN f) \X (UNION {f[x] : x \in DOMAIN f}) :
                    kv[2] \in f[kv[1]]})

CountCheckValues ==
    /\ pc = "count"
    /\ LET n0 == NumValues(fields)
           n1 == NumValues(got)
       IN  Emit(IF n0 # n1
                THEN report(<<"Field count different: ", ToString(n0), " ",
                              ToString(n1)>>)
                ELSE <<>>)
    /\ todo' = DOMAIN fields
    /\ pc' = "expected"
    /\ UNCHANGED <<flags, io, fields, got, sent, b, m, first>>

\* ww.go:172-175
CountCheck ==
    /\ pc = "count"
    /\ LET n0 == Cardinality(DOMAIN fields)
           n1 == Cardinality(DOMAIN got)
       IN  Emit(IF n0 # n1
                THEN report(<<"Field count different: ", ToString(n0), " ",
                              ToString(n1)>>)
                ELSE <<>>)
    /\ todo' = DOMAIN fields
    /\ pc' = "expected"
    /\ UNCHANGED <<flags, io, fields, got, sent, b, m, first>>

ExpectedFieldNoExtra ==
    /\ pc = "expected"
    /\ \E k \in todo :
          /\ IF k \notin DOMAIN got
             THEN Emit(report(<<"Field ">> \o k \o <<" required but missing">>))
             ELSE \E o0 \in Perms(fields[k]) : Emit(MissingValues(k, o0))
          /\ todo' = todo \ {k}
    /\ UNCHANGED <<pc, flags, io, fields, got, sent, b, m, first>>

ExpectedFieldSplitLoops ==
    /\ pc = "expected"
    /\ \E k \in todo :
          /\ IF k \notin DOMAIN got
             THEN Emit(report(<<"Field ">> \o k \o <<" required but missing">>))
             ELSE \E o0 \in Perms(fields[k]), o1 \in Perms(got[k]) :
                     Emit(ExtraValues(k, o1) \o MissingValues(k, o0))
          /\ todo' = todo \ {k}
    /\ UNCHANGED <<pc, flags, io, fields, got, sent, b, m, first>>

\* one round of the loop of ww.go:177-196
ExpectedField ==
    /\ pc = "expected"
    /\ \E k \in todo :
          /\ IF k \notin DOMAIN got
             THEN Emit(report(<<"Field ">> \o k \o <<" required but missing">>))
             ELSE \E o0 \in Perms(fields[k]), o1 \in Perms(got[k]) :
                     Emit(MissingValues(k, o0) \o ExtraValues(k, o1))
          /\ todo' = todo \ {k}
    /\ UNCHANGED <<pc, flags, io, fields, got, sent, b, m, first>>

\* the loop of ww.go:177-196 ends, the loop of ww.go:198-202 starts
ExpectedDone ==
    /\ pc = "expected"
    /\ todo = {}
    /\ todo' = DOMAIN got
    /\ pc' = "extra"
    /\ UNCHANGED <<flags, stdout, io, fields, got, msg, sent, b, m, first>>

ExtraFieldRequired ==
    /\ pc = "extra"
    /\ \E k \in todo :
          /\ IF k \notin DOMAIN fields
             THEN Emit(report(<<"Field ">> \o k \o <<" required but missing">>))
             ELSE Emit(<<>>)
          /\ todo' = todo \ {k}
    /\ UNCHANGED <<pc, flags, io, fields, got, sent, b, m, first>>

\* one round of the loop of ww.go:198-202
ExtraField ==
    /\ pc = "extra"
    /\ \E k \in todo :
          /\ IF k \notin DOMAIN fields
             THEN \E o \in Perms(got[k]) :
                     Emit(report(<<"Extra field ">> \o k \o <<" with value ">>
                                 \o keys(o)))
             ELSE Emit(<<>>)
          /\ todo' = todo \ {k}
    /\ UNCHANGED <<pc, flags, io, fields, got, sent, b, m, first>>

\* the loop of ww.go:198-202 ends
ExtraDone ==
    /\ pc = "extra"
    /\ todo = {}
    /\ pc' = "send"
    /\ UNCHANGED <<flags, stdout, io, fields, got, todo, msg, sent, b, m, first>>

(***************************************************************************)
(* The state outside the function under study.                             *)
(***************************************************************************)
NoRun ==
    /\ expect = <<>> /\ to = <<>> /\ from = <<>> /\ zone = <<>>
    /\ whois = <<>> /\ smtpServer = <<>>
    /\ stdout = <<>> /\ io = <<>> /\ sent = <<>>

NoDiff ==
    /\ got = EmptyRecord /\ todo = {} /\ msg = <<>> /\ first = <<>>

(***************************************************************************)
(* One line through the loop body of split (ww.go:86-94).                  *)
(***************************************************************************)
LineAlphabet == {"A", "b", " ", ":", "1"}

InitLine ==
    /\ b \in SeqsUpTo(LineAlphabet, MaxLineLen)
    /\ pc = "line" /\ m = Nil /\ fields = EmptyRecord
    /\ NoRun /\ NoDiff

ParseLine ==
    /\ pc = "line"
    /\ m' = FindSubmatch(b)
    /\ fields' = SplitBody(fields, b)
    /\ pc' = "parsed"
    /\ UNCHANGED <<flags, stdout, io, got, todo, msg, sent, b, first>>

SpecLine == InitLine /\ [][ParseLine]_vars

(***************************************************************************)
(* split on a whole text (ww.go:81-98).                                    *)
(***************************************************************************)
TextAlphabet == {"A", ":", " ", "\n"}

InitSplit ==
    /\ b \in SeqsUpTo(TextAlphabet, MaxTextLen)
    /\ pc = "split" /\ m = Nil /\ fields = EmptyRecord
    /\ NoRun /\ NoDiff

ParseText ==
    /\ pc = "split"
    /\ fields' = split(b)
    /\ pc' = "parsed"
    /\ UNCHANGED <<flags, stdout, io, got, todo, msg, sent, b, m, first>>

SpecSplit == InitSplit /\ [][ParseText]_vars

(***************************************************************************)
(* The comparison on its own, from ww.go:170 on, for every pair of records *)
(* split can return: no field has an empty value set.                      *)
(***************************************************************************)
Keys == {<<"K", "a">>, <<"K", "b">>, <<"K", "c">>}

Vals == {<<"x">>, <<"y">>}

Records ==
    {r \in UNION {[D -> (SUBSET Vals) \ {{}}] : D \in SUBSET Keys} :
        NumValues(r) <= MaxEntries}

InitDiff ==
    /\ fields \in Records
    /\ got \in Records
    /\ pc = "count" /\ todo = {} /\ msg = <<>> /\ first = <<>>
    /\ b = <<>> /\ m = Nil
    /\ NoRun

NextDiff ==
    \/ CountCheck
    \/ ExpectedField
    \/ ExpectedDone
    \/ ExtraField
    \/ ExtraDone

SpecDiff == InitDiff /\ [][NextDiff]_vars

\* the comparison is run again with expected and observed exchanged
SwapArguments ==
    /\ pc = "send"
    /\ first = <<>>
    /\ first' = <<msg>>
    /\ fields' = got
    /\ got' = fields
    /\ msg' = <<>>
    /\ pc' = "count"
    /\ UNCHANGED <<flags, stdout, io, todo, sent, b, m>>

SpecSwap == InitDiff /\ [][NextDiff \/ SwapArguments]_vars

(***************************************************************************)
(* main (ww.go:99-205).                                                    *)
(***************************************************************************)
ExpectValues == {<<>>, <<"expected-output">>}
ZoneValues   == {<<>>, <<"example.com">>}
FromValues   == {<<>>, <<"ww@example.com">>}
ToValues     == {<<>>, <<"a">>, <<"a", ",", "b">>}
AddrValues   == {<<"h", ":", "4", "3">>, <<"h">>, <<"h", ":", ":", "4">>}

\* the date in the header, time.Now().Format(time.RFC822Z) (ww.go:68)
Now == <<"06 Nov 26 10:43 +0000">>

SampleLines ==
    { <<"A", "b", ":", "x">>,
      <<"A", "b", ":", " ", "y">>,
      <<"C", "d", ":", "x">>,
      <<"%", " ", "n", "o">> }

\* the texts a snapshot file or a whois response may hold
Texts == {Join(ls, <<"\n">>) : ls \in SeqsUpTo(SampleLines, MaxLines)}

\* err != nil of net.SplitHostPort (ww.go:131, 137), for an address without
\* brackets: it must hold exactly one colon
SplitHostPortErr(a) == Cardinality({i \in DOMAIN a : a[i] = ":"}) # 1

\* recipients (ww.go:144)
recipients == Split(to, ",")

Init ==
    /\ expect \in ExpectValues
    /\ to \in ToValues
    /\ from \in FromValues
    /\ zone \in ZoneValues
    /\ whois \in AddrValues
    /\ smtpServer \in AddrValues
    /\ pc = "start"
    /\ stdout = <<>> /\ io = <<>> /\ sent = <<>>
    /\ fields = EmptyRecord
    /\ b = <<>> /\ m = Nil
    /\ NoDiff

Exit(text) ==
    /\ stdout' = stdout \o text
    /\ pc' = "exit"

CheckFlagsNoZone ==
    /\ pc = "start"
    /\ IF expect = <<>> THEN Exit(<<"The -expect parameter is required\n">>)
       ELSE IF to = <<>> THEN Exit(<<"The -to parameter is required\n">>)
       ELSE IF from = <<>> THEN Exit(<<"The -from parameter is required\n">>)
       ELSE IF SplitHostPortErr(whois)
       THEN Exit(<<"The -whois parameter must have format host:port: ",
                   "err", "\n">>)
       ELSE IF SplitHostPortErr(smtpServer)
       THEN Exit(<<"The -smtp parameter must have format host:port: ",
                   "err", "\n">>)
       ELSE pc' = "readfile" /\ UNCHANGED stdout
    /\ UNCHANGED <<flags, io, fields, got, todo, msg, sent, b, m, first>>

\* ww.go:114-144
CheckFlags ==
    /\ pc = "start"
    /\ IF expect = <<>> THEN Exit(<<"The -expect parameter is required\n">>)
       ELSE IF to = <<>> THEN Exit(<<"The -to parameter is required\n">>)
       ELSE IF from = <<>> THEN Exit(<<"The -from parameter is required\n">>)
       ELSE IF zone = <<>> THEN Exit(<<"The -zone parameter is required\n">>)
       ELSE IF SplitHostPortErr(whois)
       THEN Exit(<<"The -whois parameter must have format host:port: ",
                   "err", "\n">>)
       ELSE IF SplitHostPortErr(smtpServer)
       THEN Exit(<<"The -smtp parameter must have format host:port: ",
                   "err", "\n">>)
       ELSE pc' = "readfile" /\ UNCHANGED stdout
    /\ UNCHANGED <<flags, io, fields, got, todo, msg, sent, b, m, first>>

Did(op, err) == io' = Append(io, [op |-> op, err |-> err])

\* ww.go:146-152
ReadFile ==
    /\ pc = "readfile"
    /\ \/ /\ Did("ReadFile", TRUE)
          /\ Exit(<<"Error reading file ">> \o expect \o <<": ", "err", "\n">>)
          /\ UNCHANGED fields
       \/ \E expected \in Texts :
             /\ Did("ReadFile", FALSE)
             /\ fields' = split(expected)
             /\ stdout' = stdout \o <<"Loaded ",
                              ToString(Cardinality(DOMAIN split(expected))),
                              " fields from ">> \o expect \o <<"\n">>
             /\ pc' = "dial"
    /\ UNCHANGED <<flags, got, todo, msg, sent, b, m, first>>

\* ww.go:154-158
Dial ==
    /\ pc = "dial"
    /\ \/ /\ Did("Dial", TRUE)
          /\ Exit(<<"Error reading from ">> \o whois \o <<": ", "err", "\n">>)
       \/ /\ Did("Dial", FALSE)
          /\ pc' = "query"
          /\ UNCHANGED stdout
    /\ UNCHANGED <<flags, fields, got, todo, msg, sent, b, m, first>>

\* ww.go:160: the result of fmt.Fprintf is dropped
WriteQuery ==
    /\ pc = "query"
    /\ \E err \in BOOLEAN : Did("Write", err)
    /\ pc' = "readall"
    /\ UNCHANGED <<flags, stdout, fields, got, todo, msg, sent, b, m, first>>

\* ww.go:161-170
ReadAll ==
    /\ pc = "readall"
    /\ \/ /\ Did("ReadAll", TRUE)
          /\ Exit(<<"Error connecting to ">> \o whois \o <<": ", "err", "\n">>)
          /\ UNCHANGED got
       \/ \E response \in Texts :
             /\ Did("ReadAll", FALSE)
             /\ got' = split(response)
             /\ pc' = "count"
             /\ UNCHANGED stdout
    /\ UNCHANGED <<flags, fields, todo, msg, sent, b, m, first>>

\* the header of sendReport (ww.go:62-68)
Header ==
    <<"From: ">> \o from \o <<"\nTo: ">> \o Join(recipients, <<", ">>)
    \o <<"\nDate: ">> \o Now \o <<"\nSubject: WARNING! Change in ">>
    \o zone \o <<" whois record\n\n">>

SendMail(err) ==
    /\ sent' = Append(sent, [server |-> smtpServer, from |-> from,
                             to |-> recipients, msg |-> Header \o msg])
    /\ Did("SendMail", err)
    /\ stdout' = IF err
                 THEN stdout \o <<"Error sending message from ">> \o from
                      \o <<" to ">> \o Join(recipients, <<", ">>)
                      \o <<" via ">> \o smtpServer \o <<": ", "err", "\n">>
                 ELSE stdout

SendReportAlways ==
    /\ pc = "send"
    /\ \E err \in BOOLEAN : SendMail(err)
    /\ pc' = "done"
    /\ UNCHANGED <<flags, fields, got, todo, msg, b, m, first>>

\* ww.go:204 and sendReport (ww.go:57-76)
SendReport ==
    /\ pc = "send"
    /\ IF msg = <<>>
       THEN UNCHANGED <<sent, io, stdout>>
       ELSE \E err \in BOOLEAN : SendMail(err)
    /\ pc' = "done"
    /\ UNCHANGED <<flags, fields, got, todo, msg, b, m, first>>

Next ==
    \/ CheckFlags
    \/ ReadFile
    \/ Dial
    \/ WriteQuery
    \/ ReadAll
    \/ CountCheck
    \/ ExpectedField
    \/ ExpectedDone
    \/ ExtraField
    \/ ExtraDone
    \/ SendReport

Spec == Init /\ [][Next]_vars

(***************************************************************************)
(* What the claims about the parser speak of, stated without the automaton *)
(* and without the loops.                                                  *)
(***************************************************************************)
\* p is a run of words, each an uppercase letter followed by at least one
\* more letter of either case, each word optionally followed by one space
WordsLabel(p) ==
    /\ p # <<>>
    /\ \A i \in 1..Len(p) : p[i] \in Letter \cup {" "}
    /\ \A i \in 1..Len(p) :
          (i = 1 \/ p[i-1] = " ")
              => (p[i] \in Upper /\ i < Len(p) /\ p[i+1] \in Letter)

\* p is a run of words, each one uppercase letter optionally followed by
\* lowercase letters, the words optionally separated by single spaces
CapitalizedLabel(p) ==
    /\ p # <<>>
    /\ \A i \in 1..Len(p) : p[i] \in Letter \cup {" "}
    /\ p[1] \in Upper
    /\ p[Len(p)] # " "
    /\ \A i \in 1..(Len(p)-1) : p[i] = " " => p[i+1] \in Upper

\* l starts with a label for which Ok holds, followed at once by a colon
StartsWithLabel(l, Ok(_)) ==
    \E c \in 1..Len(l) :
        /\ l[c] = ":"
        /\ \A i \in 1..(c-1) : l[i] # ":"
        /\ Ok(SubSeq(l, 1, c-1))

LabelOf(l) ==
    LET c == CHOOSE i \in 1..Len(l) : l[i] = ":" /\ \A h \in 1..(i-1) : l[h] # ":"
    IN  SubSeq(l, 1, c-1)

RestOf(l) == SubSeq(l, Len(LabelOf(l)) + 2, Len(l))

\* v is r without its leading and trailing whitespace
IsTrimOf(v, r) ==
    /\ \E i \in 1..(Len(r)+1) : \E j \in 0..Len(r) :
          /\ v = SubSeq(r, i, j)
          /\ \A h \in 1..(i-1) : r[h] \in Space
          /\ \A h \in (j+1)..Len(r) : r[h] \in Space
    /\ v # <<>> => (v[1] \notin Space /\ v[Len(v)] \notin Space)

\* the lines of the text t: its maximal pieces free of newlines
LinesOf(t) ==
    {SubSeq(t, i, j) : <<i, j>> \in
        {ij \in (1..(Len(t)+1)) \X (0..Len(t)) :
            /\ ij[1] <= ij[2] + 1
            /\ (ij[1] = 1 \/ t[ij[1]-1] = "\n")
            /\ (ij[2] = Len(t) \/ t[ij[2]+1] = "\n")
            /\ \A h \in ij[1]..ij[2] : t[h] # "\n"}}

FieldLines(t) == {l \in LinesOf(t) : StartsWithLabel(l, WordsLabel)}

\* C10 as stated: a line is accepted iff it starts with a label of
\* capitalized words (an uppercase letter, then optional lowercase letters),
\* optionally separated by single spaces, followed at once by a colon.
C10_AcceptsCapitalizedWords ==
    pc = "parsed" => (m # Nil <=> StartsWithLabel(b, CapitalizedLabel))

\* C10 amended: a line is accepted iff it starts with a label of words, each
\* an uppercase letter followed by one or more letters of either case and
\* optionally by one space, followed at once by a colon; the field name is
\* then the label verbatim and the field value the trimmed rest of the line.
C10_AcceptsWords ==
    pc = "parsed" =>
        /\ m # Nil <=> StartsWithLabel(b, WordsLabel)
        /\ m = Nil => fields = EmptyRecord
        /\ m # Nil =>
              /\ DOMAIN fields = {LabelOf(b)}
              /\ \E v \in fields[LabelOf(b)] :
                    /\ fields[LabelOf(b)] = {v}
                    /\ IsTrimOf(v, RestOf(b))

\* a two-word label with a space before the colon and a padded value holding
\* a colon has gone through the loop body
C10_Witness ==
    /\ pc = "parsed"
    /\ b = <<"A", "b", " ", ":", " ", ":">>
    /\ m # Nil
    /\ fields[<<"A", "b", " ">>] = {<<":">>}

\* C9: the record split returns has a field name k iff some line matched
\* with label k, and k's value set is exactly the set of trimmed remainders
\* of the lines matching with label k.
C9_RecordIsTheMatchingLines ==
    pc = "parsed" =>
        /\ DOMAIN fields = {LabelOf(l) : l \in FieldLines(b)}
        /\ \A k \in DOMAIN fields :
              /\ \A l \in FieldLines(b) :
                    LabelOf(l) = k => TrimSpace(RestOf(l)) \in fields[k]
              /\ \A v \in fields[k] :
                    \E l \in FieldLines(b) :
                        LabelOf(l) = k /\ IsTrimOf(v, RestOf(l))

\* one label on two lines with different values, kept both
C9_Witness ==
    /\ pc = "parsed"
    /\ b = <<"A", "A", ":", "A", "\n", "A", "A", ":">>
    /\ fields = [k \in {<<"A", "A">>} |-> {<<"A">>, <<>>}]

(***************************************************************************)
(* What the claims about the comparison speak of: the lines of a report    *)
(* and the texts of the five kinds of discrepancy.                         *)
(***************************************************************************)
\* the lines of the report t, each ended by a newline
ReportLines(t) ==
    LET ps == Split(t, "\n") IN SubSeq(ps, 1, Len(ps) - 1)

Ka == <<"K", "a">>
Kb == <<"K", "b">>
Vx == <<"x">>
Vy == <<"y">>

CountLine(n0, n1) ==
    <<"Field count different: ", ToString(n0), " ", ToString(n1)>>

MissingFieldLine(k) == <<"Field ">> \o k \o <<" required but missing">>

MissingValueLine(k, v) ==
    <<"Field ">> \o k \o <<" expected value [">> \o v \o <<"] missing">>

ExtraValueLine(k, v) == <<"Field ">> \o k \o <<" extra value [">> \o v \o <<"]">>

\* the extra-field texts for k that list exactly the values vs, in any order
ExtraFieldLines(k, vs) ==
    {<<"Extra field ">> \o k \o <<" with value ">>
        \o Join([i \in DOMAIN o |-> o[i] \o <<" ">>], <<>>) : o \in Perms(vs)}

IsExtraFieldLine(l, k) ==
    /\ Len(l) >= Len(k) + 2
    /\ l[1] = "Extra field "
    /\ SubSeq(l, 2, Len(k) + 1) = k
    /\ l[Len(k) + 2] = " with value "

Kind(l) ==
    IF l = <<>> THEN "none"
    ELSE IF l[1] = "Field count different: " THEN "count"
    ELSE IF l[1] = "Extra field " THEN "extra field"
    ELSE IF l[1] # "Field " THEN "none"
    ELSE IF l[Len(l)] = " required but missing" THEN "missing field"
    ELSE IF l[Len(l)] = "] missing" THEN "missing value"
    ELSE IF l[Len(l)] = "]" THEN "extra value"
    ELSE "none"

\* the field a per-field line names
FieldOf(l) ==
    LET p == CHOOSE i \in 2..Len(l) :
                 /\ l[i] \in {" required but missing", " expected value [",
                              " extra value [", " with value "}
                 /\ \A h \in 2..(i-1) : Len(l[h]) = 1
    IN  SubSeq(l, 2, p - 1)

\* the per-field discrepancies between the records e and o, each as the set
\* of the texts that state it
Differences(e, o) ==
    {{MissingFieldLine(k)} : k \in DOMAIN e \ DOMAIN o}
    \cup UNION {{{MissingValueLine(k, v)} : v \in e[k] \ o[k]} :
                    k \in DOMAIN e \cap DOMAIN o}
    \cup UNION {{{ExtraValueLine(k, v)} : v \in o[k] \ e[k]} :
                    k \in DOMAIN e \cap DOMAIN o}
    \cup {ExtraFieldLines(k, o[k]) : k \in DOMAIN o \ DOMAIN e}

\* C1: the comparison reports nothing iff the two records are equal.
C1_EmptyIffEqual ==
    pc = "send" => (ReportLines(msg) = <<>> <=> fields = got)

\* a record with two fields has been compared against itself
C1_Witness ==
    /\ pc = "send"
    /\ fields = got
    /\ DOMAIN fields = {Ka, Kb}
    /\ msg = <<>>

\* C5: the per-field discrepancies reported are exactly the differences
\* between the two records, each once and no others.
C5_ExactlyTheDifferences ==
    pc = "send" =>
        LET L   == ReportLines(msg)
            idx == {i \in DOMAIN L : Kind(L[i]) # "count"}
        IN  /\ \A D \in Differences(fields, got) :
                  Cardinality({i \in idx : L[i] \in D}) = 1
            /\ \A i \in idx : \E D \in Differences(fields, got) : L[i] \in D

\* one field with value x expected and value y observed: two discrepancies
C5_Witness ==
    /\ pc = "send"
    /\ fields = [k \in {Ka} |-> {Vx}]
    /\ got = [k \in {Ka} |-> {Vy}]
    /\ ReportLines(msg) = <<MissingValueLine(Ka, Vx), ExtraValueLine(Ka, Vy)>>

\* C6: a count-mismatch line, carrying both counts, is reported iff the
\* numbers of field names differ, and the per-field comparison goes on
\* after it.
C6_CountMismatch ==
    pc \in {"expected", "extra", "send"} =>
        LET L  == ReportLines(msg)
            n0 == Cardinality(DOMAIN fields)
            n1 == Cardinality(DOMAIN got)
        IN  /\ n0 # n1 <=> \E i \in DOMAIN L : Kind(L[i]) = "count"
            /\ \A i \in DOMAIN L :
                  Kind(L[i]) = "count" => i = 1 /\ L[i] = CountLine(n0, n1)
            /\ pc = "send" =>
                  \A D \in Differences(fields, got) : \E i \in DOMAIN L : L[i] \in D

\* fields {Ka, Kb} expected, {Ka} observed: the count line, then Kb missing
C6_Witness ==
    /\ pc = "send"
    /\ DOMAIN fields = {Ka, Kb}
    /\ DOMAIN got = {Ka}
    /\ ReportLines(msg) = <<CountLine(2, 1), MissingFieldLine(Kb)>>

ClaimedGroup(l) ==
    CASE Kind(l) = "count" -> 0
      [] Kind(l) \in {"missing field", "missing value"} -> 1
      [] Kind(l) = "extra value" -> 2
      [] Kind(l) = "extra field" -> 3
      [] OTHER -> 4

Group(l) ==
    CASE Kind(l) = "count" -> 0
      [] Kind(l) \in {"missing field", "missing value", "extra value"} -> 1
      [] Kind(l) = "extra field" -> 2
      [] OTHER -> 3

\* C7 as stated: count mismatch, then the missing fields and missing
\* values, then the extra values, then the extra fields.
C7_FourGroupsInOrder ==
    pc = "send" =>
        LET L == ReportLines(msg)
        IN  \A i, j \in DOMAIN L : i < j => ClaimedGroup(L[i]) <= ClaimedGroup(L[j])

\* C7 amended: count mismatch first; then the discrepancies of the fields of
\* the expected record, one field after the other, a field's missing values
\* before its extra values; then the extra fields.
C7_FieldByFieldInOrder ==
    pc = "send" =>
        LET L == ReportLines(msg)
        IN  /\ \A i \in DOMAIN L : Group(L[i]) \in 0..2
            /\ \A i, j \in DOMAIN L : i < j => Group(L[i]) <= Group(L[j])
            /\ \A i, j \in DOMAIN L :
                  (i < j /\ Group(L[i]) = 1 /\ Group(L[j]) = 1
                         /\ FieldOf(L[i]) = FieldOf(L[j])) =>
                      /\ ~(Kind(L[i]) = "extra value" /\ Kind(L[j]) = "missing value")
                      /\ \A h \in i..j : FieldOf(L[h]) = FieldOf(L[i])

\* an extra value of Ka reported before the missing field Kb
C7_Witness ==
    /\ pc = "send"
    /\ ReportLines(msg) = <<CountLine(2, 1), MissingValueLine(Ka, Vx),
                            ExtraValueLine(Ka, Vy), MissingFieldLine(Kb)>>

\* C8: with the arguments exchanged a field is reported missing exactly
\* where it was reported extra, a value is reported missing exactly where
\* it was reported extra, and conversely; the count mismatch is reported
\* in both or in neither, with the counts exchanged.
C8_SwapExchangesKinds ==
    (pc = "send" /\ Len(first) = 1) =>
        LET L1 == ReportLines(first[1])
            L2 == ReportLines(msg)
            In(l, L) == \E i \in DOMAIN L : L[i] = l
            Extra(k, L) == \E i \in DOMAIN L : IsExtraFieldLine(L[i], k)
        IN  /\ Len(L1) = Len(L2)
            /\ \A k \in Keys :
                  /\ In(MissingFieldLine(k), L2) <=> Extra(k, L1)
                  /\ In(MissingFieldLine(k), L1) <=> Extra(k, L2)
                  /\ \A v \in Vals :
                        /\ In(MissingValueLine(k, v), L2) <=> In(ExtraValueLine(k, v), L1)
                        /\ In(MissingValueLine(k, v), L1) <=> In(ExtraValueLine(k, v), L2)
            /\ \A n0, n1 \in 0..Cardinality(Keys) :
                  In(CountLine(n0, n1), L1) <=> In(CountLine(n1, n0), L2)

\* {Ka: x} against {Ka: y, Kb: x}, then the other way round
C8_Witness ==
    /\ pc = "send"
    /\ Len(first) = 1
    /\ got = [k \in {Ka} |-> {Vx}]
    /\ fields = [k \in {Ka, Kb} |-> IF k = Ka THEN {Vy} ELSE {Vx}]
    /\ \E i \in DOMAIN ReportLines(first[1]) :
          IsExtraFieldLine(ReportLines(first[1])[i], Kb)
    /\ \E i \in DOMAIN ReportLines(msg) :
          ReportLines(msg)[i] = MissingFieldLine(Kb)

(***************************************************************************)
(* What the claims about a whole run speak of.                             *)
(***************************************************************************)
Happened(op, err) == \E i \in DOMAIN io : io[i].op = op /\ io[i].err = err

\* the run got both texts and went on to the comparison
ReachedComparison == Happened("ReadAll", FALSE)

InComparison == pc \in {"count", "expected", "extra", "send", "done"}

IsSuffix(t, u) ==
    Len(t) <= Len(u) /\ SubSeq(u, Len(u) - Len(t) + 1, Len(u)) = t

IsInfix(t, u) ==
    \E i \in 0..(Len(u) - Len(t)) : SubSeq(u, i + 1, i + Len(t)) = t

\* a required flag is empty or an address is not host:port
BadFlags ==
    \/ expect = <<>> \/ to = <<>> \/ from = <<>> \/ zone = <<>>
    \/ \E a \in {whois, smtpServer} :
          Cardinality({i \in DOMAIN a : a[i] = ":"}) # 1

\* C2: a run that reaches the comparison calls the mailer once if the
\* report is not empty and never if it is empty; the body sent ends with
\* the report, which holds every discrepancy logged, each ended by a
\* newline, in the order logged; the Subject names the zone.
C2_MailOnceIffDiscrepancies ==
    /\ pc # "done" => sent = <<>>
    /\ (pc = "done" /\ ReachedComparison) =>
          /\ msg = <<>> => sent = <<>> /\ ~Happened("SendMail", TRUE)
                                       /\ ~Happened("SendMail", FALSE)
          /\ msg # <<>> =>
                /\ Len(sent) = 1
                /\ Cardinality({i \in DOMAIN io : io[i].op = "SendMail"}) = 1
                /\ IsSuffix(msg, sent[1].msg)
                /\ msg[Len(msg)] = "\n"
                /\ IsInfix(msg, stdout)
                /\ \A i \in DOMAIN ReportLines(msg) :
                      Kind(ReportLines(msg)[i]) # "none"
                /\ IsInfix(<<"\nSubject: WARNING! Change in ">> \o zone
                           \o <<" whois record\n\n">>,
                           SubSeq(sent[1].msg, 1, Len(sent[1].msg) - Len(msg)))
                /\ zone # <<>>

\* one mail has gone out, with a report of two lines
C2_Witness ==
    /\ pc = "done"
    /\ Len(sent) = 1
    /\ Len(ReportLines(msg)) = 2
    /\ IsSuffix(msg, sent[1].msg)

C4_AnyIOFailureAborts ==
    (\E op \in {"ReadFile", "Dial", "Write", "ReadAll"} : Happened(op, TRUE)) =>
        /\ ~InComparison
        /\ msg = <<>>
        /\ sent = <<>>

====
